---- MODULE Spec2Model ----
(***************************************************************************)
(* Model of the drum-machine sequencer of src/main.go: Parse, Render and   *)
(* Play of the drumMachine type (the complete implementation, lines        *)
(* 1-189; lines 191-316 are an earlier draft of the same file, whose Parse *)
(* and Play are stubs).  Go strings are modelled as sequences of           *)
(* one-character strings, so that Cut, TrimSpace, ReplaceAll, Join, Trim   *)
(* and Split are computed character by character as the library computes   *)
(* them.                                                                   *)
(***************************************************************************)
EXTENDS Integers, Sequences, FiniteSets, TLC

VARIABLES
    pc,         \* position of the caller: "start", "idle", "playing", "sleeping", "panicked"
    text,       \* the pattern text the caller hands to Parse
    pattern,    \* Pattern returned by Parse
    parseErr,   \* error returned by Parse ("none" before the call)
    render,     \* the field drumMachine.render
    renderRet,  \* string returned by the last Render call
    renderErr,  \* "none" before any call, "nil", or "panic" (run-time panic)
    bpm,        \* argument of the Play call in progress (or of the last one)
    beats,      \* local variable beats of Play
    idx,        \* loop index i of Play (0-based, as in the code)
    ms,         \* time.Duration(milisecondsToBeat) of the Play call, in milliseconds
    out,        \* what the Play call has done so far: prints and sleeps, in order
    playRet     \* "none", "running", or "nil" (Play's only return value)

vars == <<pc, text, pattern, parseErr, render, renderRet, renderErr,
          bpm, beats, idx, ms, out, playRet>>

renderVars == <<render, renderRet, renderErr>>
playVars == <<bpm, beats, idx, ms, out, playRet>>

(***************************************************************************)
(* Bounds of the model.                                                    *)
(***************************************************************************)
MaxTextLen == 6
MaxInstruments == 2
MaxSteps == 2
MaxBpm == 130

(***************************************************************************)
(* Strings.                                                                *)
(***************************************************************************)
Chars == {"x", "X", " ", "|", "-", "\n"}

\* unicode.IsSpace, as used by strings.TrimSpace
IsSpace(c) == c \in {" ", "\t", "\n", "\r", "\f"}

\* index of the first c in s, 0 when there is none
IndexOf(s, c) ==
    IF \E k \in 1..Len(s) : s[k] = c
    THEN CHOOSE k \in 1..Len(s) : s[k] = c /\ \A m \in 1..(k - 1) : s[m] # c
    ELSE 0

\* bufio's dropCR: a trailing carriage return is removed from a line
DropCR(s) ==
    IF Len(s) > 0 /\ s[Len(s)] = "\r" THEN SubSeq(s, 1, Len(s) - 1) ELSE s

\* the tokens bufio.Scanner yields with the default split function ScanLines
RECURSIVE ScanLines(_)
ScanLines(data) ==
    IF Len(data) = 0 THEN <<>>
    ELSE LET k == IndexOf(data, "\n") IN
         IF k > 0
         THEN <<DropCR(SubSeq(data, 1, k - 1))>> \o ScanLines(SubSeq(data, k + 1, Len(data)))
         ELSE <<DropCR(data)>>

\* strings.Cut(s, sep) for a one-character sep
Cut(s, sep) ==
    LET k == IndexOf(s, sep) IN
    IF k = 0
    THEN [before |-> s, after |-> <<>>, found |-> FALSE]
    ELSE [before |-> SubSeq(s, 1, k - 1), after |-> SubSeq(s, k + 1, Len(s)), found |-> TRUE]

RECURSIVE TrimLeftSpace(_)
TrimLeftSpace(s) ==
    IF Len(s) > 0 /\ IsSpace(s[1]) THEN TrimLeftSpace(Tail(s)) ELSE s

RECURSIVE TrimRightSpace(_)
TrimRightSpace(s) ==
    IF Len(s) > 0 /\ IsSpace(s[Len(s)]) THEN TrimRightSpace(SubSeq(s, 1, Len(s) - 1)) ELSE s

\* strings.TrimSpace
TrimSpace(s) == TrimRightSpace(TrimLeftSpace(s))

\* strings.ReplaceAll(s, c, "") for a one-character c
RemoveAll(s, c) == SelectSeq(s, LAMBDA ch : ch # c)

(***************************************************************************)
(* Parse.                                                                  *)
(***************************************************************************)
EmptyPattern == [instrumentNames |-> <<>>, track |-> <<>>]

\* mutant of contains: only the name appended last is compared
containsLast(s, e) == Len(s) > 0 /\ s[Len(s)] = e

contains(s, e) == \E k \in 1..Len(s) : s[k] = e

\* mutant of getBooleanPlay: only "x" is a hit
getBooleanPlayStrict(beat) == IF beat = "x" THEN TRUE ELSE FALSE

getBooleanPlay(beat) == IF beat # "-" THEN TRUE ELSE FALSE

\* the loop "for _, v := range sequence" of Parse
RowOf(sequence) == [k \in 1..Len(sequence) |-> getBooleanPlay(sequence[k])]

\* mutant of ParseLoop: a line without separator is skipped ("continue")
RECURSIVE ParseLoopSkip(_, _, _, _)
ParseLoopSkip(lines, n, instrumentNames, track) ==
    IF n > Len(lines)
    THEN [pattern |-> [instrumentNames |-> instrumentNames, track |-> track], err |-> "nil"]
    ELSE LET c == Cut(lines[n], "|")
             instrumentName == TrimSpace(c.before)
             sequence == RemoveAll(c.after, "|")
         IN  IF ~c.found
             THEN ParseLoopSkip(lines, n + 1, instrumentNames, track)
             ELSE IF contains(instrumentNames, instrumentName)
             THEN [pattern |-> [instrumentNames |-> <<>>, track |-> <<>>],
                   err |-> "duplicated instrument name"]
             ELSE ParseLoopSkip(lines, n + 1, Append(instrumentNames, instrumentName),
                                Append(track, RowOf(sequence)))

\* the loop "for scanner.Scan()" of Parse, from line n on
RECURSIVE ParseLoop(_, _, _, _)
ParseLoop(lines, n, instrumentNames, track) ==
    IF n > Len(lines)
    THEN [pattern |-> [instrumentNames |-> instrumentNames, track |-> track], err |-> "nil"]
    ELSE LET c == Cut(lines[n], "|")
             instrumentName == TrimSpace(c.before)
             sequence == RemoveAll(c.after, "|")
         IN  IF ~c.found
             THEN [pattern |-> EmptyPattern, err |-> "incorrect format"]
             ELSE IF contains(instrumentNames, instrumentName)
             THEN [pattern |-> EmptyPattern, err |-> "duplicated instrument name"]
             ELSE ParseLoop(lines, n + 1, Append(instrumentNames, instrumentName),
                            Append(track, RowOf(sequence)))

ParseFn(t) == ParseLoop(ScanLines(t), 1, <<>>, <<>>)

(***************************************************************************)
(* Render.                                                                 *)
(***************************************************************************)
\* strings.Join
RECURSIVE Join(_, _)
Join(elems, sep) ==
    IF Len(elems) = 0 THEN <<>>
    ELSE IF Len(elems) = 1 THEN elems[1]
    ELSE elems[1] \o sep \o Join(Tail(elems), sep)

Panic == [panic |-> TRUE, columnPlay |-> <<>>, play |-> <<>>]

\* the inner loop "for j := 0; j < len(pattern.track); j++" of Render, for
\* column i, from row j on (i and j are 1-based here); an index out of
\* range is a run-time panic
RECURSIVE RenderRows(_, _, _, _)
RenderRows(p, i, j, columnPlay) ==
    IF j > Len(p.track)
    THEN [panic |-> FALSE, columnPlay |-> columnPlay, play |-> <<>>]
    ELSE IF i > Len(p.track[j]) THEN Panic
    ELSE IF p.track[j][i]
    THEN IF j > Len(p.instrumentNames) THEN Panic
         ELSE RenderRows(p, i, j + 1, Append(columnPlay, p.instrumentNames[j]))
    ELSE RenderRows(p, i, j + 1, columnPlay)

\* mutant of RenderColumns: columnPlay is not emptied after a step with hits
RECURSIVE RenderColumnsKeep(_, _, _, _)
RenderColumnsKeep(p, i, columnPlay, play) ==
    IF i > Len(p.track[1])
    THEN [panic |-> FALSE, columnPlay |-> columnPlay, play |-> play]
    ELSE LET r == RenderRows(p, i, 1, columnPlay) IN
         IF r.panic THEN Panic
         ELSE IF Len(r.columnPlay) > 0
         THEN RenderColumnsKeep(p, i + 1, r.columnPlay,
                                play \o Join(r.columnPlay, <<",">>) \o <<"|">>)
         ELSE RenderColumnsKeep(p, i + 1, r.columnPlay, play \o <<"-", "|">>)

\* the outer loop "for i := 0; i < len(pattern.track[0]); i++" of Render,
\* from column i on
RECURSIVE RenderColumns(_, _, _, _)
RenderColumns(p, i, columnPlay, play) ==
    IF i > Len(p.track[1])
    THEN [panic |-> FALSE, columnPlay |-> columnPlay, play |-> play]
    ELSE LET r == RenderRows(p, i, 1, columnPlay) IN
         IF r.panic THEN Panic
         ELSE IF Len(r.columnPlay) > 0
         THEN RenderColumns(p, i + 1, <<>>, play \o Join(r.columnPlay, <<",">>) \o <<"|">>)
         ELSE RenderColumns(p, i + 1, r.columnPlay, play \o <<"-", "|">>)

\* Render's result: a panic (pattern.track[0] of an empty track, or an index
\* out of range in the loops), or the string play
RenderFn(p) ==
    IF Len(p.track) = 0 THEN Panic
    ELSE LET r == RenderColumns(p, 1, <<>>, <<>>) IN
         IF r.panic THEN Panic
         ELSE [panic |-> FALSE, columnPlay |-> <<>>,
               play |-> IF Len(r.play) > 0 THEN <<"|">> \o r.play ELSE r.play]

(***************************************************************************)
(* float32 arithmetic of Play.  A non-zero finite value is                 *)
(* sign * m * 2^(e - 23) with 2^23 <= m < 2^24.  Exponent overflow and     *)
(* underflow cannot occur for int32 / 60 and 1000 / (int32 / 60).          *)
(***************************************************************************)
Pow2(n) == 2 ^ n

MantBits == 23

F32Zero == [kind |-> "zero", sign |-> 1, m |-> 0, e |-> 0]
F32Inf(s) == [kind |-> "inf", sign |-> s, m |-> 0, e |-> 0]
F32NaN == [kind |-> "nan", sign |-> 1, m |-> 0, e |-> 0]

\* round to nearest, ties to even: g is the first dropped bit, s the rest
RoundNE(sign, m, e, g, s) ==
    LET up == g /\ (s \/ m % 2 = 1)
        m1 == IF up THEN m + 1 ELSE m
    IN  IF m1 = Pow2(MantBits + 1)
        THEN [kind |-> "num", sign |-> sign, m |-> Pow2(MantBits), e |-> e + 1]
        ELSE [kind |-> "num", sign |-> sign, m |-> m1, e |-> e]

RECURSIVE NormUp(_, _)
NormUp(m, e) == IF m < Pow2(MantBits) THEN NormUp(2 * m, e - 1) ELSE [m |-> m, e |-> e]

RECURSIVE NormDown(_, _, _, _)
NormDown(m, e, g, s) ==
    IF m >= Pow2(MantBits + 1)
    THEN NormDown(m \div 2, e + 1, m % 2 = 1, s \/ g)
    ELSE [m |-> m, e |-> e, g |-> g, s |-> s]

\* the conversion float32(n) of an integer n
F32FromInt(n) ==
    IF n = 0 THEN F32Zero
    ELSE LET sign == IF n < 0 THEN -1 ELSE 1
             a == IF n < 0 THEN -n ELSE n
         IN  IF a < Pow2(MantBits + 1)
             THEN LET u == NormUp(a, MantBits)
                  IN  [kind |-> "num", sign |-> sign, m |-> u.m, e |-> u.e]
             ELSE LET d == NormDown(a, MantBits, FALSE, FALSE)
                  IN  RoundNE(sign, d.m, d.e, d.g, d.s)

\* nbits further quotient bits of rem / d by long division
RECURSIVE DivBits(_, _, _, _)
DivBits(rem, d, q, nbits) ==
    IF nbits = 0 THEN [q |-> q, rem |-> rem]
    ELSE IF 2 * rem >= d THEN DivBits(2 * rem - d, d, 2 * q + 1, nbits - 1)
    ELSE DivBits(2 * rem, d, 2 * q, nbits - 1)

\* the float32 quotient a / b
F32Div(a, b) ==
    IF a.kind = "nan" \/ b.kind = "nan" THEN F32NaN
    ELSE IF a.kind = "inf" THEN (IF b.kind = "inf" THEN F32NaN ELSE F32Inf(a.sign * b.sign))
    ELSE IF b.kind = "inf" THEN F32Zero
    ELSE IF b.kind = "zero" THEN (IF a.kind = "zero" THEN F32NaN ELSE F32Inf(a.sign * b.sign))
    ELSE IF a.kind = "zero" THEN F32Zero
    ELSE LET big == a.m >= b.m
             rem0 == IF big THEN a.m - b.m ELSE 2 * a.m - b.m
             e0 == IF big THEN a.e - b.e ELSE a.e - b.e - 1
             r == DivBits(rem0, b.m, 1, MantBits)
             g == 2 * r.rem >= b.m
             rem2 == IF g THEN 2 * r.rem - b.m ELSE 2 * r.rem
         IN  RoundNE(a.sign * b.sign, r.q, e0, g, rem2 > 0)

\* the conversion time.Duration(f) of a finite float32: truncation toward zero
F32Trunc(f) ==
    IF f.kind = "zero" THEN 0
    ELSE IF f.e < 0 THEN 0
    ELSE IF f.e <= MantBits THEN f.sign * (f.m \div Pow2(MantBits - f.e))
    ELSE f.sign * f.m * Pow2(f.e - MantBits)

\* The conversion of a value the result type cannot represent (+Inf, for bpm
\* = 0) is implementation-dependent, and its product with time.Millisecond
\* wraps: any duration may result.  One representative each of the negative,
\* zero and positive outcomes.
Unrepresentable == {-1000, 0, 1000}

\* the values time.Duration(milisecondsToBeat) may take
DurationOf(f) == IF f.kind \in {"inf", "nan"} THEN Unrepresentable ELSE {F32Trunc(f)}

\* mutant of beatsPerSecond: the ratio inverted
beatsPerSecondInverted(b) == F32Div(F32FromInt(60), F32FromInt(b))

beatsPerSecond(b) == F32Div(F32FromInt(b), F32FromInt(60))

milisecondsToBeat(bps) == F32Div(F32FromInt(1000), bps)

(***************************************************************************)
(* Play.                                                                   *)
(***************************************************************************)
RECURSIVE TrimLeft(_, _)
TrimLeft(s, c) == IF Len(s) > 0 /\ s[1] = c THEN TrimLeft(Tail(s), c) ELSE s

RECURSIVE TrimRight(_, _)
TrimRight(s, c) ==
    IF Len(s) > 0 /\ s[Len(s)] = c THEN TrimRight(SubSeq(s, 1, Len(s) - 1), c) ELSE s

\* strings.Trim(s, cutset) for a one-character cutset
Trim(s, c) == TrimRight(TrimLeft(s, c), c)

\* strings.Split(s, sep) for a one-character sep
RECURSIVE Split(_, _)
Split(s, sep) ==
    LET k == IndexOf(s, sep) IN
    IF k = 0 THEN <<s>>
    ELSE <<SubSeq(s, 1, k - 1)>> \o Split(SubSeq(s, k + 1, Len(s)), sep)

Event(kind, s, d, f) == [kind |-> kind, s |-> s, d |-> d, f |-> f]

(***************************************************************************)
(* Inputs: the pattern texts handed to Parse.                              *)
(***************************************************************************)
\* every text of at most maxLen characters
Texts(maxLen) == UNION {[1..n -> Chars] : n \in 0..maxLen}

\* instrument names: trimmed, without "|" or line break; the empty name is
\* the name of a line that starts with "|"
Names == {<<>>, <<"k">>, <<"h", "-", "h">>}

Rows(maxSteps) == UNION {[1..s -> BOOLEAN] : s \in 0..maxSteps}

NameSeqs(n) == {q \in [1..n -> Names] : \A a, b \in 1..n : a # b => q[a] # q[b]}

\* at most maxTracks tracks of at most maxSteps steps each, the rows of any
\* lengths
Patterns(maxTracks, maxSteps) ==
    UNION {{[instrumentNames |-> q, track |-> t] :
               q \in NameSeqs(n), t \in [1..n -> Rows(maxSteps)]} :
           n \in 0..maxTracks}

\* the line "name |beats|" of one track, as in the doc comment of Parse
FormatLine(name, row) ==
    name \o <<" ", "|">> \o [k \in 1..Len(row) |-> IF row[k] THEN "x" ELSE "-"] \o <<"|">>

\* the text of a pattern, one line per track
FormatPattern(p) ==
    Join([k \in 1..Len(p.track) |-> FormatLine(p.instrumentNames[k], p.track[k])], <<"\n">>)

PatternTexts(maxTracks, maxSteps) == {FormatPattern(p) : p \in Patterns(maxTracks, maxSteps)}

BPMs == {-5, 0, 60}

TempoBPMs == 1..MaxBpm

\* hi-hat |x-|
\* kick   |xx|
ExampleText ==
    <<"h", "-", "h", " ", "|", "x", "-", "|", "\n", "k", " ", " ", " ", "|", "x", "x", "|">>

(***************************************************************************)
(* Operations.                                                             *)
(***************************************************************************)
\* Parse(text)
Parse ==
    /\ pc = "start"
    /\ LET r == ParseFn(text) IN
          /\ pattern' = r.pattern
          /\ parseErr' = r.err
    /\ pc' = "idle"
    /\ UNCHANGED <<text, renderVars, playVars>>

\* Render(pattern), with the Pattern Parse returned, as in main (which goes
\* on to Render whatever the error of Parse): stores the string in the field
\* render and returns it, or panics
Render ==
    /\ pc = "idle"
    /\ LET r == RenderFn(pattern) IN
          IF r.panic
          THEN /\ pc' = "panicked"
               /\ renderErr' = "panic"
               /\ renderRet' = <<>>
               /\ UNCHANGED render
          ELSE /\ pc' = "idle"
               /\ renderErr' = "nil"
               /\ renderRet' = r.play
               /\ render' = r.play
    /\ bpm' = 0 /\ beats' = <<>> /\ idx' = 0 /\ ms' = 0 /\ out' = <<>>
    /\ playRet' = "none"
    /\ UNCHANGED <<text, pattern, parseErr>>

\* Play(b) up to its loop: lines 143-149
PlayCall(b) ==
    /\ pc = "idle"
    /\ bpm' = b
    /\ beats' = Split(Trim(render, "|"), "|")
    /\ LET bps == beatsPerSecond(b)
           msToBeat == milisecondsToBeat(bps)
       IN  /\ ms' \in DurationOf(msToBeat)
           /\ out' = <<Event("println", <<>>, 0, bps), Event("println", <<>>, 0, msToBeat)>>
    /\ idx' = 0
    /\ playRet' = "running"
    /\ pc' = "playing"
    /\ UNCHANGED <<text, pattern, parseErr, renderVars>>

Play == \E b \in BPMs : PlayCall(b)

PlayTempo == \E b \in TempoBPMs : PlayCall(b)

\* fmt.Print of the beat at index idx: lines 153 and 157
PlayEmit ==
    /\ pc = "playing"
    /\ idx < Len(beats)
    /\ out' = Append(out, Event("print",
                                IF idx = 0 THEN <<"|">> \o beats[idx + 1] \o <<"|">>
                                ELSE beats[idx + 1] \o <<"|">>,
                                0, F32Zero))
    /\ pc' = "sleeping"
    /\ UNCHANGED <<text, pattern, parseErr, renderVars, bpm, beats, idx, ms, playRet>>

\* time.Sleep after the print: lines 154 and 158
PlaySleep ==
    /\ pc = "sleeping"
    /\ out' = Append(out, Event("sleep", <<>>, ms, F32Zero))
    /\ idx' = idx + 1
    /\ pc' = "playing"
    /\ UNCHANGED <<text, pattern, parseErr, renderVars, bpm, beats, ms, playRet>>

\* return nil: line 161
PlayReturn ==
    /\ pc = "playing"
    /\ idx = Len(beats)
    /\ playRet' = "nil"
    /\ pc' = "idle"
    /\ UNCHANGED <<text, pattern, parseErr, renderVars, bpm, beats, idx, ms, out>>

(***************************************************************************)
(* Specifications.                                                         *)
(***************************************************************************)
\* the state after NewDrumMachine(), before the caller has done anything
Fresh ==
    /\ pc = "start"
    /\ pattern = EmptyPattern /\ parseErr = "none"
    /\ render = <<>> /\ renderRet = <<>> /\ renderErr = "none"
    /\ bpm = 0 /\ beats = <<>> /\ idx = 0 /\ ms = 0 /\ out = <<>>
    /\ playRet = "none"

\* Parse of the text of a pattern, then Render and Play in any order
Init == text \in PatternTexts(MaxInstruments, MaxSteps) /\ Fresh

Next == Parse \/ Render \/ Play \/ PlayEmit \/ PlaySleep \/ PlayReturn

Spec == Init /\ [][Next]_vars

\* Parse of any short text, then Render
InitParse == text \in Texts(MaxTextLen) /\ Fresh

NextParse == Parse \/ Render

SpecParse == InitParse /\ [][NextParse]_vars

\* Parse of the text of a pattern, then Render
SpecRender == Init /\ [][NextParse]_vars

\* Parse and Render of the example, then Play at any tempo of 1..MaxBpm
InitTempo == text = ExampleText /\ Fresh

NextTempo == Parse \/ Render \/ PlayTempo \/ PlayEmit \/ PlaySleep \/ PlayReturn

SpecTempo == InitTempo /\ [][NextTempo]_vars

(***************************************************************************)
(* The input seen as the claims describe it: its lines, and for a line     *)
(* with a separator its name part and its beat symbols.  These definitions *)
(* are stated from positions in the text, not by the scanner's steps.      *)
(***************************************************************************)
NewlinePos(t) == {k \in 1..Len(t) : t[k] = "\n"}

\* a final line break ends the last line; it does not start another one
NumLines(t) ==
    Cardinality(NewlinePos(t)) + (IF Len(t) > 0 /\ t[Len(t)] # "\n" THEN 1 ELSE 0)

\* the position of the n-th line break of t
NthNewline(t, n) ==
    CHOOSE k \in NewlinePos(t) : Cardinality({m \in NewlinePos(t) : m <= k}) = n

InputLine(t, n) ==
    LET first == IF n = 1 THEN 1 ELSE NthNewline(t, n - 1) + 1
        last == IF Cardinality(NewlinePos(t)) >= n THEN NthNewline(t, n) - 1 ELSE Len(t)
    IN  SubSeq(t, first, last)

HasSeparator(l) == \E k \in 1..Len(l) : l[k] = "|"

FirstSeparator(l) == CHOOSE k \in 1..Len(l) : l[k] = "|" /\ \A m \in 1..(k - 1) : l[m] # "|"

\* s without its surrounding blanks
Trimmed(s) ==
    LET solid == {k \in 1..Len(s) : s[k] # " "} IN
    IF solid = {} THEN <<>>
    ELSE SubSeq(s, CHOOSE k \in solid : \A m \in solid : k <= m,
                   CHOOSE k \in solid : \A m \in solid : k >= m)

NameOfLine(l) == Trimmed(SubSeq(l, 1, FirstSeparator(l) - 1))

BeatsOfLine(l) ==
    SelectSeq(SubSeq(l, FirstSeparator(l) + 1, Len(l)), LAMBDA ch : ch # "|")

WellFormedUpTo(t, n) == \A k \in 1..n : HasSeparator(InputLine(t, k))

\* lines a < b, both with a separator, that carry the same name
SameName(t, a, b) ==
    /\ a < b
    /\ HasSeparator(InputLine(t, a)) /\ HasSeparator(InputLine(t, b))
    /\ NameOfLine(InputLine(t, a)) = NameOfLine(InputLine(t, b))

NoRepeatedNameUpTo(t, n) == \A a, b \in 1..n : ~SameName(t, a, b)

Parsed == parseErr # "none"

ParseFailed == parseErr \in {"incorrect format", "duplicated instrument name"}

Rendered == renderErr # "none"

NumInstruments == Len(pattern.track)

\* every row has the length of row 0
EqualRows == \A j \in 1..NumInstruments : Len(pattern.track[j]) = Len(pattern.track[1])

RECURSIVE Flatten(_)
Flatten(parts) == IF Len(parts) = 0 THEN <<>> ELSE parts[1] \o Flatten(Tail(parts))

\* the names of the instruments active at step i, in increasing row index
ActiveNames(i) ==
    LET rowsOn == SelectSeq([j \in 1..NumInstruments |-> j], LAMBDA j : pattern.track[j][i])
    IN  [k \in 1..Len(rowsOn) |-> pattern.instrumentNames[rowsOn[k]]]

StepToken(i) ==
    LET names == ActiveNames(i) IN
    IF Len(names) = 0 THEN <<"-">>
    ELSE Flatten([k \in 1..Len(names) |-> IF k = 1 THEN names[k] ELSE <<",">> \o names[k]])

\* |t0|t1|...|tS-1| for S steps
CanonicalRender(S) == <<"|">> \o Flatten([i \in 1..S |-> StepToken(i) \o <<"|">>])

CountOf(s, c) == Cardinality({k \in 1..Len(s) : s[k] = c})

\* C1: for a Pattern of N >= 1 instruments whose rows all have the same
\* length S >= 1, Render returns without error the string |t0|...|tS-1| of S
\* tokens and S+1 separators, token i being "-" when no row is active at
\* step i and otherwise the comma-joined names of the active rows in input
\* order.
C1_RenderCanonical ==
    (Rendered /\ NumInstruments >= 1 /\ EqualRows /\ Len(pattern.track[1]) >= 1)
    => /\ renderErr = "nil"
       /\ renderRet = CanonicalRender(Len(pattern.track[1]))
       /\ CountOf(renderRet, "|") = Len(pattern.track[1]) + 1
       /\ render = renderRet

\* two instruments and two steps, the second instrument alone at the first
\* step and both at the second
C1_Witness ==
    /\ renderErr = "nil"
    /\ NumInstruments = 2
    /\ EqualRows
    /\ Len(pattern.track[1]) = 2
    /\ ~pattern.track[1][1] /\ pattern.track[2][1]
    /\ pattern.track[1][2] /\ pattern.track[2][2]
    /\ pattern.instrumentNames[1] # <<>> /\ pattern.instrumentNames[2] # <<>>

\* C2: Render of a Pattern whose rows do not all have the same length fails
\* with a RaggedTrackError returned as an error value: no out-of-bounds read
\* (a panic) and no rendered string.
C2_RaggedRejected ==
    (Rendered /\ NumInstruments >= 1 /\ ~EqualRows) => renderErr \notin {"nil", "panic"}

\* C3: Render of a Pattern with zero instruments or with zero-length rows
\* returns the empty string and no error.
C3_EmptyRender ==
    (Rendered /\ (NumInstruments = 0 \/ \A j \in 1..NumInstruments : Len(pattern.track[j]) = 0))
    => (renderErr = "nil" /\ renderRet = <<>>)

(***************************************************************************)
(* Claims about Play.                                                      *)
(***************************************************************************)
PlayCalled == playRet # "none"

PlayReturned == pc = "idle" /\ playRet = "nil"

\* the step tokens printed and the suspensions made so far, in order (the
\* two Println lines that precede the loop are left out)
Steps == SelectSeq(out, LAMBDA ev : ev.kind \in {"print", "sleep"})

Printed == SelectSeq(out, LAMBDA ev : ev.kind = "print")

Sleeps == SelectSeq(out, LAMBDA ev : ev.kind = "sleep")

\* C4: Play with bpm <= 0 returns an InvalidTempoError, prints no step token
\* and makes no suspension.
C4_InvalidTempo ==
    (PlayCalled /\ bpm <= 0) => (playRet # "nil" /\ Steps = <<>>)

\* C5: Play with bpm > 0 when the stored render is empty once its separators
\* are stripped returns an EmptyRenderError and prints nothing.
C5_EmptyRender ==
    (PlayCalled /\ bpm > 0 /\ Trim(render, "|") = <<>>)
    => (playRet # "nil" /\ Steps = <<>>)

\* C8: after Render returned a non-empty string r, Play(bpm) with bpm > 0
\* prints the step tokens of r in order, the first with a leading and a
\* trailing "|" and the others with a trailing "|", so that what it printed
\* concatenates to r; one token per step of the pattern, each followed by one
\* suspension; the stored render is unchanged; Play returns nil.
C8_PlaysTheRender ==
    (PlayReturned /\ bpm > 0 /\ renderErr = "nil" /\ renderRet # <<>>)
    => /\ render = renderRet
       /\ Flatten([k \in 1..Len(Printed) |-> Printed[k].s]) = renderRet
       /\ Len(Printed) = Len(pattern.track[1])
       /\ Len(Steps) = 2 * Len(Printed)
       /\ \A k \in 1..Len(Steps) : Steps[k].kind = (IF k % 2 = 1 THEN "print" ELSE "sleep")

\* C9 as stated: every suspension of a Play call with bpm > 0 lasts exactly
\* 1000 / (bpm / 60) milliseconds, that is 60000 / bpm.
C9_ExactInterval ==
    (PlayCalled /\ bpm > 0) => \A k \in 1..Len(Sleeps) : Sleeps[k].d * bpm = 60000

\* C9 amended: every suspension of a Play call with bpm > 0 lasts the same
\* whole number of milliseconds, the float32 value 1000 / (float32(bpm) / 60)
\* truncated toward zero: never more than 60000 / bpm and at most one
\* millisecond less; it is 1000 ms at bpm = 60 and 500 ms at bpm = 120.
C9_TruncatedInterval ==
    (PlayCalled /\ bpm > 0)
    => \A k \in 1..Len(Sleeps) :
          /\ Sleeps[k].d = ms
          /\ ms * bpm <= 60000
          /\ (ms + 1) * bpm >= 60000
          /\ bpm = 60 => ms = 1000
          /\ bpm = 120 => ms = 500

\* a finished Play at bpm = 120 that suspended after each of two tokens
C9_Witness ==
    /\ PlayReturned
    /\ bpm = 120
    /\ Len(Sleeps) = 2
    /\ Len(Printed) = 2
    /\ Sleeps[1].d = 500 /\ Sleeps[2].d = 500

====
